---- MODULE Spec2Model ----
(***************************************************************************)
(* Model of dlls/user32/clipboard.c: the per-process clipboard client      *)
(* (marshalling codecs, format synthesis, session control) together with   *)
(* the session arbiter it talks to.  The arbiter (the server side of the   *)
(* requests open_clipboard, close_clipboard, empty_clipboard,              *)
(* set_clipboard_data, get_clipboard_data, get_clipboard_formats and       *)
(* get_clipboard_info) is modelled from the interface description, the     *)
(* client from its source.                                                 *)
(***************************************************************************)
EXTENDS Integers, Sequences, FiniteSets, TLC

(* ------------------------------------------------------------------ *)
(* Clipboard format identifiers (winuser.h values, as named in        *)
(* debugstr_format).                                                  *)
(* ------------------------------------------------------------------ *)
CF_TEXT == 1
CF_BITMAP == 2
CF_METAFILEPICT == 3
CF_OEMTEXT == 7
CF_DIB == 8
CF_PALETTE == 9
CF_UNICODETEXT == 13
CF_ENHMETAFILE == 14
CF_LOCALE == 16
CF_DIBV5 == 17
CF_MAX == 18
CF_DSPBITMAP == 130

(* Sizes of the structures the codecs copy (32-bit layout).           *)
SIZEOF_BITMAP == 24
SIZEOF_LOGPALETTE == 8
SIZEOF_METAFILEPICT == 16
SIZEOF_BITMAPINFO == 44
SIZEOF_BITMAPINFOHEADER == 40
SIZEOF_BITMAPV5HEADER == 124

(* Initial guess of the reply buffer in GetClipboardData.             *)
INITIAL_SIZE == 1024

(* Code page identifier of UTF-16 text.                               *)
CP_UNICODE == 1200

(* ------------------------------------------------------------------ *)
(* Bounds of the model.                                               *)
(* ------------------------------------------------------------------ *)
\* puts and empties the arbiter accepts before the model stops writing
MaxSeq == 5
\* largest bitmap width and height the codec specification draws
MaxDim == 2
\* slack, in bytes, drawn around the exact payload size of a bitmap
MaxSlack == 2

(* ------------------------------------------------------------------ *)
(* Handles and flat payloads.                                         *)
(* ------------------------------------------------------------------ *)
\* HANDLE 0
NULL == [k |-> "null"]

\* a block of global memory: GlobalSize, what its bytes encode, whose bytes
Mem(size, enc, id, hdr) == [k |-> "mem", size |-> size, enc |-> enc, id |-> id, hdr |-> hdr]

\* a GDI bitmap as GetObjectW describes it; bmBits # 0 for a DIB section
Bitmap(w, h, wb, bpp, bits, pix) ==
    [k |-> "bitmap", bmWidth |-> w, bmHeight |-> h, bmWidthBytes |-> wb,
     bmBitsPixel |-> bpp, bmBits |-> bits, pix |-> pix]

\* the flat payload the arbiter stores: its length and what it encodes
Bytes(size, body) == [size |-> size, body |-> body]

\* a directory entry without data (delayed rendering, or a synthesis placeholder)
NoData == Bytes(0, NULL)

Abs(x) == IF x < 0 THEN -x ELSE x

\* ((x + 15) >> 3) & ~1 for x >= 0
Stride(bits) == 2 * (((bits + 15) \div 8) \div 2)

(* ------------------------------------------------------------------ *)
(* Codec layer: marshal_data and unmarshal_data.                      *)
(* ------------------------------------------------------------------ *)
\* size of the pixel buffer marshal_data copies after the BITMAP header
bitmap_bits_size(bm) == Abs(bm.bmHeight) * Stride(bm.bmWidth * bm.bmBitsPixel)

\* offsetof( LOGPALETTE, palPalEntry[n] )
palette_size(n) == 4 + 4 * n

marshal_failed == [ok |-> FALSE, bytes |-> NoData]

\* a marshal_data that sizes the pixel buffer of a bitmap with rows of whole
\* bytes, not of whole 16-bit words
marshal_data_byte_rows(format, handle) ==
    IF format \in {CF_BITMAP, CF_DSPBITMAP}
    THEN IF handle.k # "bitmap" THEN marshal_failed
         ELSE [ok |-> TRUE,
               bytes |-> Bytes(SIZEOF_BITMAP
                                 + Abs(handle.bmHeight)
                                     * ((handle.bmWidth * handle.bmBitsPixel + 7) \div 8),
                               handle)]
    ELSE IF handle.k # "mem" \/ handle.size = 0 THEN marshal_failed
    ELSE [ok |-> TRUE, bytes |-> Bytes(handle.size, handle)]

\* build the data to send to the server in SetClipboardData
marshal_data(format, handle) ==
    CASE format \in {CF_BITMAP, CF_DSPBITMAP} ->
           IF handle.k # "bitmap" THEN marshal_failed
           ELSE [ok |-> TRUE,
                 bytes |-> Bytes(SIZEOF_BITMAP + bitmap_bits_size(handle), handle)]
      [] format = CF_PALETTE ->
           IF handle.k # "palette" \/ handle.n = 0 THEN marshal_failed
           ELSE [ok |-> TRUE,
                 bytes |-> Bytes(palette_size(handle.n),
                                 [k |-> "palette", palNumEntries |-> handle.n, id |-> handle.id])]
      [] format = CF_ENHMETAFILE ->
           IF handle.k # "emf" \/ handle.size = 0 THEN marshal_failed
           ELSE [ok |-> TRUE, bytes |-> Bytes(handle.size, handle)]
      [] format = CF_METAFILEPICT ->
           IF handle.k # "mem" THEN marshal_failed
           ELSE IF handle.enc # CF_METAFILEPICT \/ handle.hdr[1] = 0 THEN marshal_failed
           ELSE [ok |-> TRUE, bytes |-> Bytes(SIZEOF_METAFILEPICT + handle.hdr[1], handle)]
      [] OTHER ->
           IF handle.k # "mem" THEN marshal_failed
           ELSE IF handle.size = 0 THEN marshal_failed
           ELSE [ok |-> TRUE, bytes |-> Bytes(handle.size, handle)]

\* the validation unmarshal_data applies to a CF_BITMAP payload
bitmap_accepted(bytes) ==
    /\ ~(bytes.size < SIZEOF_BITMAP)
    /\ ~(bytes.size < bytes.body.bmWidthBytes * Abs(bytes.body.bmHeight))
    /\ bytes.body.bmBits = 0

\* the validation unmarshal_data applies to a CF_PALETTE payload
palette_accepted(bytes) ==
    /\ ~(bytes.size < SIZEOF_LOGPALETTE)
    /\ ~(bytes.size < palette_size(bytes.body.palNumEntries))

\* the validation unmarshal_data applies to a CF_METAFILEPICT payload
metafile_accepted(bytes) == ~(bytes.size <= SIZEOF_METAFILEPICT)

\* the handle the final "return handle" gives back: the received block itself
raw_handle(bytes) == [k |-> "raw", size |-> bytes.size, body |-> bytes.body]

\* rebuild the target handle from the data received in GetClipboardData;
\* junk is what a read past the end of the received block yields
unmarshal_data(format, bytes, junk) ==
    CASE format = CF_BITMAP ->
           IF bitmap_accepted(bytes)
           THEN LET bm == bytes.body
                    need == SIZEOF_BITMAP + bm.bmWidthBytes * Abs(bm.bmHeight)
                IN [h |-> Bitmap(bm.bmWidth, bm.bmHeight, Stride(bm.bmWidth * bm.bmBitsPixel),
                                 bm.bmBitsPixel, 0,
                                 IF bytes.size < need THEN junk ELSE bm.pix),
                    rebuilt |-> TRUE, rejected |-> FALSE]
           ELSE [h |-> raw_handle(bytes), rebuilt |-> FALSE, rejected |-> TRUE]
      [] format = CF_DSPBITMAP ->
           [h |-> raw_handle(bytes), rebuilt |-> FALSE, rejected |-> TRUE]
      [] format = CF_PALETTE ->
           IF palette_accepted(bytes)
           THEN [h |-> [k |-> "palette", n |-> bytes.body.palNumEntries, id |-> bytes.body.id],
                 rebuilt |-> TRUE, rejected |-> FALSE]
           ELSE [h |-> raw_handle(bytes), rebuilt |-> FALSE, rejected |-> TRUE]
      [] format = CF_ENHMETAFILE ->
           [h |-> [k |-> "emf", size |-> bytes.size, id |-> bytes.body.id],
            rebuilt |-> TRUE, rejected |-> FALSE]
      [] format = CF_METAFILEPICT ->
           IF metafile_accepted(bytes)
           THEN [h |-> Mem(SIZEOF_METAFILEPICT, CF_METAFILEPICT, bytes.body.id,
                           <<bytes.size - SIZEOF_METAFILEPICT>>),
                 rebuilt |-> TRUE, rejected |-> FALSE]
           ELSE [h |-> raw_handle(bytes), rebuilt |-> FALSE, rejected |-> TRUE]
      [] OTHER ->
           [h |-> Mem(bytes.size, bytes.body.enc, bytes.body.id, bytes.body.hdr),
            rebuilt |-> FALSE, rejected |-> FALSE]

(* ------------------------------------------------------------------ *)
(* The session arbiter (server side), from the interface description. *)
(* srv = [open_by, owner, dir, seqno]; dir maps a format to its entry. *)
(* ------------------------------------------------------------------ *)
\* the actors: this process, and another process using the same clipboard
Self == 1
Other == 2

TextFamily == {CF_TEXT, CF_OEMTEXT, CF_UNICODETEXT}
BitmapFamily == {CF_BITMAP, CF_DIB, CF_DIBV5}
MetafileFamily == {CF_METAFILEPICT, CF_ENHMETAFILE}
SynthFormats == TextFamily \cup BitmapFamily \cup MetafileFamily
\* the formats the directory of the model can hold
Formats == SynthFormats \cup {CF_LOCALE, CF_PALETTE, CF_DSPBITMAP}
\* the formats the other process writes: the primary one of each family
OtherFormats == {CF_UNICODETEXT, CF_BITMAP, CF_ENHMETAFILE}

Absent == [present |-> FALSE, bytes |-> NoData]
Entry(bytes) == [present |-> TRUE, bytes |-> bytes]
EmptyDir == [f \in Formats |-> Absent]

\* open(requesting_actor): refused while a session is open
srv_open_clipboard(srv, actor) ==
    IF srv.open_by # 0 THEN [ok |-> FALSE, srv |-> srv, owner |-> 0]
    ELSE [ok |-> TRUE, srv |-> [srv EXCEPT !.open_by = actor], owner |-> srv.owner]

\* close(): refused unless the caller holds the session
srv_close_clipboard(srv, actor) ==
    IF srv.open_by # actor THEN [ok |-> FALSE, srv |-> srv]
    ELSE [ok |-> TRUE, srv |-> [srv EXCEPT !.open_by = 0]]

\* empty(): clears the directory and makes the caller the owner
srv_empty_clipboard(srv, actor) ==
    IF srv.open_by # actor THEN [ok |-> FALSE, srv |-> srv]
    ELSE [ok |-> TRUE,
          srv |-> [srv EXCEPT !.dir = EmptyDir, !.owner = actor, !.seqno = @ + 1]]

\* the directory after put(format_id, bytes)
srv_put(srv, format, bytes) ==
    [srv EXCEPT !.dir[format] = Entry(bytes), !.seqno = @ + 1]

\* put(format_id, bytes): refused unless the caller holds the session
srv_set_clipboard_data(srv, actor, format, bytes) ==
    IF srv.open_by # actor THEN [ok |-> FALSE, srv |-> srv]
    ELSE [ok |-> TRUE, srv |-> srv_put(srv, format, bytes)]

\* get(format_id, buffer) -> bytes | BufferTooSmall(required_size) | NotFound
srv_get_clipboard_data(srv, actor, format, bufsize) ==
    IF srv.open_by # actor \/ ~srv.dir[format].present
    THEN [status |-> "error", total |-> 0, owner |-> 0, data |-> NoData]
    ELSE IF srv.dir[format].bytes.size > bufsize
    THEN [status |-> "overflow", total |-> srv.dir[format].bytes.size,
          owner |-> srv.owner, data |-> NoData]
    ELSE [status |-> "ok", total |-> srv.dir[format].bytes.size,
          owner |-> srv.owner, data |-> srv.dir[format].bytes]

\* format_count() restricted to one format
srv_get_clipboard_formats(srv, format) == IF srv.dir[format].present THEN 1 ELSE 0

(* ------------------------------------------------------------------ *)
(* Client state threaded through the calls of one API entry point:    *)
(* st = [srv, chg, syn] with chg = bCBHasChanged and                  *)
(* syn = synthesized_formats.                                         *)
(* ------------------------------------------------------------------ *)
NoSynth == [f \in {g \in Formats : g < CF_MAX} |-> 0]

IsClipboardFormatAvailable(st, format) ==
    IF format = 0 THEN FALSE ELSE srv_get_clipboard_formats(st.srv, format) > 0

\* a SetClipboardData that leaves the entry of the format in synthesized_formats
SetClipboardData_keeping_entry(st, format, data) ==
    LET m == IF data = NULL THEN [ok |-> TRUE, bytes |-> NoData]
             ELSE marshal_data(format, data)
        r == srv_set_clipboard_data(st.srv, Self, format, m.bytes)
    IN IF ~m.ok \/ ~r.ok THEN [st |-> st, ret |-> NULL, ok |-> FALSE]
       ELSE [st |-> [st EXCEPT !.srv = r.srv, !.chg = TRUE], ret |-> data, ok |-> TRUE]

\* a SetClipboardData that issues the request whatever marshal_data returned
SetClipboardData_request_first(st, format, data) ==
    LET m == IF data = NULL THEN [ok |-> TRUE, bytes |-> NoData]
             ELSE marshal_data(format, data)
        r == srv_set_clipboard_data(st.srv, Self, format, m.bytes)
    IN IF r.ok /\ m.ok
       THEN [st |-> [st EXCEPT !.srv = r.srv, !.chg = TRUE,
                               !.syn = IF format < CF_MAX
                                       THEN [@ EXCEPT ![format] = 0] ELSE @],
             ret |-> data, ok |-> TRUE]
       ELSE [st |-> [st EXCEPT !.srv = r.srv], ret |-> NULL, ok |-> FALSE]

\* a SetClipboardData that registers the classic metafile as synthesized as
\* soon as an enhanced metafile is written
SetClipboardData_eager_sibling(st, format, data) ==
    LET m == IF data = NULL THEN [ok |-> TRUE, bytes |-> NoData]
             ELSE marshal_data(format, data)
    IN IF ~m.ok THEN [st |-> st, ret |-> NULL, ok |-> FALSE]
       ELSE LET r == srv_set_clipboard_data(st.srv, Self, format, m.bytes)
            IN IF r.ok
               THEN [st |-> [st EXCEPT !.srv = r.srv, !.chg = TRUE,
                                       !.syn = IF format = CF_ENHMETAFILE /\ data # NULL
                                               THEN [@ EXCEPT ![format] = 0,
                                                              ![CF_METAFILEPICT] = format]
                                               ELSE IF format < CF_MAX
                                               THEN [@ EXCEPT ![format] = 0] ELSE @],
                     ret |-> data, ok |-> TRUE]
               ELSE [st |-> st, ret |-> NULL, ok |-> FALSE]

SetClipboardData(st, format, data) ==
    LET m == IF data = NULL THEN [ok |-> TRUE, bytes |-> NoData]
             ELSE marshal_data(format, data)
    IN IF ~m.ok THEN [st |-> st, ret |-> NULL, ok |-> FALSE]
       ELSE LET r == srv_set_clipboard_data(st.srv, Self, format, m.bytes)
            IN IF r.ok
               THEN [st |-> [st EXCEPT !.srv = r.srv, !.chg = TRUE,
                                       !.syn = IF format < CF_MAX
                                               THEN [@ EXCEPT ![format] = 0] ELSE @],
                     ret |-> data, ok |-> TRUE]
               ELSE [st |-> st, ret |-> NULL, ok |-> FALSE]

(* ------------------------------------------------------------------ *)
(* Rendering of synthesized formats.                                  *)
(* env = [conv, render, lcid, junk]: whether the external converters  *)
(* and allocations succeed, whether the owner answers WM_RENDERFORMAT *)
(* with data, GetUserDefaultLCID(), and the content of a read past    *)
(* the end of a block.                                                *)
(* ------------------------------------------------------------------ *)
\* get the codepage to use for text conversions in the specified format
get_format_codepage(lcid, format) ==
    IF format = CF_TEXT THEN 1250 + lcid ELSE 850 + lcid

\* the stored size of a DIB header of the given flavour (no colour table)
dib_header_size(format) ==
    IF format = CF_DIBV5 THEN SIZEOF_BITMAPV5HEADER ELSE SIZEOF_BITMAPINFOHEADER

\* the scan line length of a DIB: rounded up to 4 bytes
dib_stride(bits) == 4 * ((bits + 31) \div 32)

\* render synthesized ANSI text based on the contents of the 'from' format
render_synthesized_textA(data, format, from, lcid, env) ==
    IF data.k # "mem" \/ ~env.conv THEN NULL
    ELSE LET size == IF from # CF_UNICODETEXT THEN data.size * 2 ELSE data.size
             len == size \div 2
         IN Mem(len, get_format_codepage(lcid, format), data.id,
                IF from # CF_UNICODETEXT THEN <<get_format_codepage(lcid, from)>> ELSE <<>>)

\* render synthesized Unicode text based on the contents of the 'from' format
render_synthesized_textW(data, from, lcid, env) ==
    IF data.k # "mem" \/ ~env.conv THEN NULL
    ELSE Mem(data.size * 2, CP_UNICODE, data.id, <<get_format_codepage(lcid, from)>>)

\* render a synthesized bitmap based on the DIB clipboard data
render_synthesized_bitmap(data, from, env) ==
    IF data.k # "mem" \/ ~env.conv THEN NULL
    ELSE Bitmap(data.hdr[1], Abs(data.hdr[2]), Stride(data.hdr[1] * data.hdr[3]),
                data.hdr[3], 0, data.id)

\* render a synthesized DIB based on the clipboard data
render_synthesized_dib(data, format, from, env) ==
    IF from = CF_BITMAP
    THEN IF data.k # "bitmap" \/ ~env.conv THEN NULL
         ELSE Mem(dib_header_size(format)
                    + Abs(data.bmHeight) * dib_stride(data.bmWidth * data.bmBitsPixel),
                  format, data.pix, <<data.bmWidth, data.bmHeight, data.bmBitsPixel>>)
    ELSE IF data.k # "mem" THEN NULL
    ELSE IF data.size < SIZEOF_BITMAPINFO THEN NULL
    ELSE IF data.size <= dib_header_size(from) THEN NULL
    ELSE IF ~env.conv THEN NULL
    ELSE Mem(dib_header_size(format) + (data.size - dib_header_size(from)),
             format, data.id, data.hdr)

\* render a synthesized metafile based on the enhmetafile clipboard data
render_synthesized_metafile(data, env) ==
    IF data.k # "emf" \/ ~env.conv THEN NULL
    ELSE Mem(SIZEOF_METAFILEPICT, CF_METAFILEPICT, data.id, <<data.size>>)

\* render a synthesized enhmetafile based on the metafile clipboard data
render_synthesized_enhmetafile(data, env) ==
    IF data.k # "mem" \/ ~env.conv THEN NULL
    ELSE [k |-> "emf", size |-> data.hdr[1], id |-> data.id]

\* what the application of the owning process hands to SetClipboardData
\* for a format: application data of that format
AppHandle(format, id, lcid) ==
    CASE format = CF_UNICODETEXT -> Mem(6, CP_UNICODE, id, <<>>)
      [] format \in {CF_TEXT, CF_OEMTEXT} -> Mem(3, get_format_codepage(lcid, format), id, <<>>)
      [] format = CF_BITMAP -> Bitmap(1, 1, Stride(32), 32, 0, id)
      [] format \in {CF_DIB, CF_DIBV5} -> Mem(dib_header_size(format) + 4, format, id, <<1, 1, 32>>)
      [] format = CF_METAFILEPICT -> Mem(SIZEOF_METAFILEPICT, CF_METAFILEPICT, id, <<2>>)
      [] format = CF_ENHMETAFILE -> [k |-> "emf", size |-> 2, id |-> id]
      [] OTHER -> Mem(4, 0, lcid, <<>>)

\* what one GetClipboardData call did: arbiter get requests, WM_RENDERFORMAT
\* messages sent, conversion routines invoked, the buffer size of each get
\* request, and the formats WM_RENDERFORMAT was sent for, in order
NoCount == [gets |-> 0, renders |-> 0, convs |-> 0, sizes |-> <<>>, asked |-> <<>>]

\* the owner's answer to WM_RENDERFORMAT: it may call SetClipboardData
owner_render(st, owner, format, env) ==
    IF ~env.render THEN st
    ELSE IF owner = Self THEN SetClipboardData(st, format, AppHandle(format, Self, env.lcid)).st
    ELSE [st EXCEPT !.srv = srv_put(st.srv, format,
                                    marshal_data(format, AppHandle(format, Other, env.lcid)).bytes)]

GetFailed(st, cnt) ==
    [st |-> st, ret |-> NULL, rejected |-> FALSE, rebuilt |-> FALSE, cnt |-> cnt]

\* a GetClipboardData that issues one get request and gives up on overflow
get_once(st, format, size, render, cnt, env) ==
    LET r == srv_get_clipboard_data(st.srv, Self, format, size)
        cnt1 == [cnt EXCEPT !.gets = @ + 1, !.sizes = Append(@, size)]
    IN IF r.status = "ok" /\ r.total > 0
       THEN LET u == unmarshal_data(format, r.data, env.junk)
            IN [st |-> st, ret |-> u.h, rejected |-> u.rejected, rebuilt |-> u.rebuilt,
                cnt |-> cnt1]
       ELSE GetFailed(st, cnt1)

\* a loop that does not clear its render flag before the first answer
RECURSIVE get_asking_twice(_, _, _, _, _, _)
get_asking_twice(st, format, size, render, cnt, env) ==
    LET r == srv_get_clipboard_data(st.srv, Self, format, size)
        cnt1 == [cnt EXCEPT !.gets = @ + 1, !.sizes = Append(@, size)]
    IN IF r.status = "ok" /\ r.total > 0
       THEN LET u == unmarshal_data(format, r.data, env.junk)
            IN [st |-> st, ret |-> u.h, rejected |-> u.rejected, rebuilt |-> u.rebuilt,
                cnt |-> cnt1]
       ELSE IF r.status = "overflow" THEN get_asking_twice(st, format, r.total, render, cnt1, env)
       ELSE IF r.status # "ok" THEN GetFailed(st, cnt1)
       ELSE IF render /\ r.owner # 0
       THEN get_asking_twice(owner_render(st, r.owner, format, env), format, r.total,
                             cnt1.renders = 0,
                             [cnt1 EXCEPT !.renders = @ + 1, !.asked = Append(@, format)], env)
       ELSE GetFailed(st, cnt1)

\* the for (;;) loop of GetClipboardData
RECURSIVE get_loop(_, _, _, _, _, _)
get_loop(st, format, size, render, cnt, env) ==
    LET r == srv_get_clipboard_data(st.srv, Self, format, size)
        cnt1 == [cnt EXCEPT !.gets = @ + 1, !.sizes = Append(@, size)]
    IN IF r.status = "ok" /\ r.total > 0
       THEN LET u == unmarshal_data(format, r.data, env.junk)
            IN [st |-> st, ret |-> u.h, rejected |-> u.rejected, rebuilt |-> u.rebuilt,
                cnt |-> cnt1]
       ELSE IF r.status = "overflow" THEN get_loop(st, format, r.total, render, cnt1, env)
       ELSE IF r.status # "ok" THEN GetFailed(st, cnt1)
       ELSE IF render /\ r.owner # 0
       THEN get_loop(owner_render(st, r.owner, format, env), format, r.total, FALSE,
                     [cnt1 EXCEPT !.renders = @ + 1, !.asked = Append(@, format)], env)
       ELSE GetFailed(st, cnt1)

RECURSIVE GetClipboardData(_, _, _, _)
RECURSIVE render_synthesized_format(_, _, _, _, _)

\* a locale lookup that takes GetUserDefaultLCID() without reading CF_LOCALE
get_live_locale(st, cnt, env) == [st |-> st, cnt |-> cnt, lcid |-> env.lcid]

\* a locale lookup that reads CF_LOCALE a second time after the first read
get_clipboard_locale_twice(st, cnt, env) ==
    LET g0 == GetClipboardData(st, CF_LOCALE, cnt, env)
        g == GetClipboardData(g0.st, CF_LOCALE, g0.cnt, env)
    IN [st |-> g.st, cnt |-> g.cnt,
        lcid |-> IF g.ret # NULL /\ g.ret.k = "mem" /\ g.ret.size >= 4
                 THEN g.ret.id ELSE env.lcid]

\* get the clipboard locale stored in the CF_LOCALE format
get_clipboard_locale(st, cnt, env) ==
    LET g == GetClipboardData(st, CF_LOCALE, cnt, env)
    IN [st |-> g.st, cnt |-> g.cnt,
        lcid |-> IF g.ret # NULL /\ g.ret.k = "mem" /\ g.ret.size >= 4
                 THEN g.ret.id ELSE env.lcid]

\* a render_synthesized_format that forgets the table entry of a format
\* whose conversion failed
render_synthesized_format_forgetting(st, format, from, cnt, env) ==
    LET g == GetClipboardData(st, from, cnt, env)
    IN IF g.ret = NULL THEN GetFailed(g.st, g.cnt)
       ELSE LET loc == IF format \in TextFamily
                       THEN get_clipboard_locale(g.st, g.cnt, env)
                       ELSE [st |-> g.st, cnt |-> g.cnt, lcid |-> env.lcid]
                data == CASE format \in {CF_TEXT, CF_OEMTEXT} ->
                               render_synthesized_textA(g.ret, format, from, loc.lcid, env)
                          [] format = CF_UNICODETEXT ->
                               render_synthesized_textW(g.ret, from, loc.lcid, env)
                          [] format = CF_BITMAP -> render_synthesized_bitmap(g.ret, from, env)
                          [] format \in {CF_DIB, CF_DIBV5} ->
                               render_synthesized_dib(g.ret, format, from, env)
                          [] format = CF_METAFILEPICT -> render_synthesized_metafile(g.ret, env)
                          [] format = CF_ENHMETAFILE -> render_synthesized_enhmetafile(g.ret, env)
                cnt1 == [loc.cnt EXCEPT !.convs = @ + 1]
            IN IF data # NULL
               THEN [st |-> SetClipboardData(loc.st, format, data).st, ret |-> data,
                     rejected |-> FALSE, rebuilt |-> FALSE, cnt |-> cnt1]
               ELSE GetFailed([loc.st EXCEPT !.syn[format] = 0], cnt1)

\* render a synthesized format
render_synthesized_format(st, format, from, cnt, env) ==
    LET g == GetClipboardData(st, from, cnt, env)
    IN IF g.ret = NULL THEN GetFailed(g.st, g.cnt)
       ELSE LET loc == IF format \in TextFamily
                       THEN get_clipboard_locale(g.st, g.cnt, env)
                       ELSE [st |-> g.st, cnt |-> g.cnt, lcid |-> env.lcid]
                data == CASE format \in {CF_TEXT, CF_OEMTEXT} ->
                               render_synthesized_textA(g.ret, format, from, loc.lcid, env)
                          [] format = CF_UNICODETEXT ->
                               render_synthesized_textW(g.ret, from, loc.lcid, env)
                          [] format = CF_BITMAP -> render_synthesized_bitmap(g.ret, from, env)
                          [] format \in {CF_DIB, CF_DIBV5} ->
                               render_synthesized_dib(g.ret, format, from, env)
                          [] format = CF_METAFILEPICT -> render_synthesized_metafile(g.ret, env)
                          [] format = CF_ENHMETAFILE -> render_synthesized_enhmetafile(g.ret, env)
                cnt1 == [loc.cnt EXCEPT !.convs = @ + 1]
            IN IF data # NULL
               THEN [st |-> SetClipboardData(loc.st, format, data).st, ret |-> data,
                     rejected |-> FALSE, rebuilt |-> FALSE, cnt |-> cnt1]
               ELSE GetFailed(loc.st, cnt1)

GetClipboardData(st, format, cnt, env) ==
    IF format < CF_MAX /\ st.syn[format] # 0
    THEN render_synthesized_format(st, format, st.syn[format], cnt, env)
    ELSE get_loop(st, format, INITIAL_SIZE, TRUE, cnt, env)

(* ------------------------------------------------------------------ *)
(* Close-time synthesis pass.                                         *)
(* ------------------------------------------------------------------ *)
\* add a synthesized format to the list
add_synthesized_format(st, format, from) ==
    [SetClipboardData(st, format, NULL).st EXCEPT !.syn[format] = from]

\* store the current locale in the CF_LOCALE format
set_clipboard_locale(st, env) ==
    SetClipboardData(st, CF_LOCALE, Mem(4, 0, env.lcid, <<>>)).st

\* apply add_synthesized_format for each (format, from) of a sequence, in order
RECURSIVE add_all(_, _)
add_all(st, todo) ==
    IF todo = <<>> THEN st
    ELSE add_all(add_synthesized_format(st, todo[1][1], todo[1][2]), Tail(todo))

\* an add_synthesized_text that stores the locale whether or not CF_LOCALE
\* is available
add_synthesized_text_storing_locale(st, env) ==
    LET has_text == IsClipboardFormatAvailable(st, CF_TEXT)
        has_oemtext == IsClipboardFormatAvailable(st, CF_OEMTEXT)
        has_unicode == IsClipboardFormatAvailable(st, CF_UNICODETEXT)
    IN IF ~has_text /\ ~has_oemtext /\ ~has_unicode THEN st
       ELSE LET s1 == set_clipboard_locale(st, env)
            IN IF has_unicode
               THEN add_all(s1, (IF ~has_text THEN <<<<CF_TEXT, CF_UNICODETEXT>>>> ELSE <<>>)
                                \o (IF ~has_oemtext THEN <<<<CF_OEMTEXT, CF_UNICODETEXT>>>> ELSE <<>>))
               ELSE IF has_text
               THEN add_all(s1, (IF ~has_oemtext THEN <<<<CF_OEMTEXT, CF_TEXT>>>> ELSE <<>>)
                                \o (IF ~has_unicode THEN <<<<CF_UNICODETEXT, CF_TEXT>>>> ELSE <<>>))
               ELSE add_all(s1, (IF ~has_text THEN <<<<CF_TEXT, CF_OEMTEXT>>>> ELSE <<>>)
                                \o (IF ~has_unicode THEN <<<<CF_UNICODETEXT, CF_OEMTEXT>>>> ELSE <<>>))

\* an add_synthesized_text that prefers CF_TEXT to CF_UNICODETEXT as the source
add_synthesized_text_plain_first(st, env) ==
    LET has_text == IsClipboardFormatAvailable(st, CF_TEXT)
        has_oemtext == IsClipboardFormatAvailable(st, CF_OEMTEXT)
        has_unicode == IsClipboardFormatAvailable(st, CF_UNICODETEXT)
    IN IF ~has_text /\ ~has_oemtext /\ ~has_unicode THEN st
       ELSE LET s1 == IF ~IsClipboardFormatAvailable(st, CF_LOCALE)
                      THEN set_clipboard_locale(st, env) ELSE st
            IN IF has_text
               THEN add_all(s1, (IF ~has_oemtext THEN <<<<CF_OEMTEXT, CF_TEXT>>>> ELSE <<>>)
                                \o (IF ~has_unicode THEN <<<<CF_UNICODETEXT, CF_TEXT>>>> ELSE <<>>))
               ELSE IF has_unicode
               THEN add_all(s1, (IF ~has_text THEN <<<<CF_TEXT, CF_UNICODETEXT>>>> ELSE <<>>)
                                \o (IF ~has_oemtext THEN <<<<CF_OEMTEXT, CF_UNICODETEXT>>>> ELSE <<>>))
               ELSE add_all(s1, (IF ~has_text THEN <<<<CF_TEXT, CF_OEMTEXT>>>> ELSE <<>>)
                                \o (IF ~has_unicode THEN <<<<CF_UNICODETEXT, CF_OEMTEXT>>>> ELSE <<>>))

\* add synthesized text formats based on what is already in the clipboard
add_synthesized_text(st, env) ==
    LET has_text == IsClipboardFormatAvailable(st, CF_TEXT)
        has_oemtext == IsClipboardFormatAvailable(st, CF_OEMTEXT)
        has_unicode == IsClipboardFormatAvailable(st, CF_UNICODETEXT)
    IN IF ~has_text /\ ~has_oemtext /\ ~has_unicode THEN st
       ELSE LET s1 == IF ~IsClipboardFormatAvailable(st, CF_LOCALE)
                      THEN set_clipboard_locale(st, env) ELSE st
            IN IF has_unicode
               THEN add_all(s1, (IF ~has_text THEN <<<<CF_TEXT, CF_UNICODETEXT>>>> ELSE <<>>)
                                \o (IF ~has_oemtext THEN <<<<CF_OEMTEXT, CF_UNICODETEXT>>>> ELSE <<>>))
               ELSE IF has_text
               THEN add_all(s1, (IF ~has_oemtext THEN <<<<CF_OEMTEXT, CF_TEXT>>>> ELSE <<>>)
                                \o (IF ~has_unicode THEN <<<<CF_UNICODETEXT, CF_TEXT>>>> ELSE <<>>))
               ELSE add_all(s1, (IF ~has_text THEN <<<<CF_TEXT, CF_OEMTEXT>>>> ELSE <<>>)
                                \o (IF ~has_unicode THEN <<<<CF_UNICODETEXT, CF_OEMTEXT>>>> ELSE <<>>))

\* an add_synthesized_bitmap that prefers CF_DIB to CF_BITMAP as the source
add_synthesized_bitmap_dib_first(st) ==
    LET has_dib == IsClipboardFormatAvailable(st, CF_DIB)
        has_dibv5 == IsClipboardFormatAvailable(st, CF_DIBV5)
        has_bitmap == IsClipboardFormatAvailable(st, CF_BITMAP)
    IN IF ~has_bitmap /\ ~has_dib /\ ~has_dibv5 THEN st
       ELSE IF has_bitmap /\ has_dib /\ has_dibv5 THEN st
       ELSE IF has_dib
       THEN add_all(st, (IF ~has_bitmap THEN <<<<CF_BITMAP, CF_DIB>>>> ELSE <<>>)
                        \o (IF ~has_dibv5 THEN <<<<CF_DIBV5, CF_DIB>>>> ELSE <<>>))
       ELSE IF has_bitmap
       THEN add_all(st, (IF ~has_dib THEN <<<<CF_DIB, CF_BITMAP>>>> ELSE <<>>)
                        \o (IF ~has_dibv5 THEN <<<<CF_DIBV5, CF_BITMAP>>>> ELSE <<>>))
       ELSE add_all(st, (IF ~has_bitmap THEN <<<<CF_BITMAP, CF_DIBV5>>>> ELSE <<>>)
                        \o (IF ~has_dib THEN <<<<CF_DIB, CF_DIBV5>>>> ELSE <<>>))

\* add synthesized bitmap formats based on what is already in the clipboard
add_synthesized_bitmap(st) ==
    LET has_dib == IsClipboardFormatAvailable(st, CF_DIB)
        has_dibv5 == IsClipboardFormatAvailable(st, CF_DIBV5)
        has_bitmap == IsClipboardFormatAvailable(st, CF_BITMAP)
    IN IF ~has_bitmap /\ ~has_dib /\ ~has_dibv5 THEN st
       ELSE IF has_bitmap /\ has_dib /\ has_dibv5 THEN st
       ELSE IF has_bitmap
       THEN add_all(st, (IF ~has_dib THEN <<<<CF_DIB, CF_BITMAP>>>> ELSE <<>>)
                        \o (IF ~has_dibv5 THEN <<<<CF_DIBV5, CF_BITMAP>>>> ELSE <<>>))
       ELSE IF has_dib
       THEN add_all(st, (IF ~has_bitmap THEN <<<<CF_BITMAP, CF_DIB>>>> ELSE <<>>)
                        \o (IF ~has_dibv5 THEN <<<<CF_DIBV5, CF_DIB>>>> ELSE <<>>))
       ELSE add_all(st, (IF ~has_bitmap THEN <<<<CF_BITMAP, CF_DIBV5>>>> ELSE <<>>)
                        \o (IF ~has_dib THEN <<<<CF_DIB, CF_DIBV5>>>> ELSE <<>>))

\* a metafile step that registers nothing
add_synthesized_metafile_skipped(st) == st

\* an add_synthesized_metafile that registers the other format whether or
\* not it is available
add_synthesized_metafile_always(st) ==
    LET has_mf == IsClipboardFormatAvailable(st, CF_METAFILEPICT)
        has_emf == IsClipboardFormatAvailable(st, CF_ENHMETAFILE)
    IN IF has_emf THEN add_synthesized_format(st, CF_METAFILEPICT, CF_ENHMETAFILE)
       ELSE IF has_mf THEN add_synthesized_format(st, CF_ENHMETAFILE, CF_METAFILEPICT)
       ELSE st

\* add synthesized metafile formats based on what is already in the clipboard
add_synthesized_metafile(st) ==
    LET has_mf == IsClipboardFormatAvailable(st, CF_METAFILEPICT)
        has_emf == IsClipboardFormatAvailable(st, CF_ENHMETAFILE)
    IN IF ~has_mf /\ has_emf THEN add_synthesized_format(st, CF_METAFILEPICT, CF_ENHMETAFILE)
       ELSE IF ~has_emf /\ has_mf THEN add_synthesized_format(st, CF_ENHMETAFILE, CF_METAFILEPICT)
       ELSE st

\* the block CloseClipboard runs when bCBHasChanged is set
synthesis_pass(st, env) ==
    add_synthesized_metafile(
        add_synthesized_bitmap(
            add_synthesized_text([st EXCEPT !.syn = NoSynth], env)))

(* ------------------------------------------------------------------ *)
(* API entry points as functions of the client state.                 *)
(* ------------------------------------------------------------------ *)
\* an OpenClipboard that resets the client state on every successful open
OpenClipboard_always_reset(st) ==
    LET r == srv_open_clipboard(st.srv, Self)
    IN IF ~r.ok THEN [st |-> st, ok |-> FALSE]
       ELSE [st |-> [srv |-> r.srv, chg |-> FALSE, syn |-> NoSynth], ok |-> TRUE]

OpenClipboard_fn(st) ==
    LET r == srv_open_clipboard(st.srv, Self)
    IN IF ~r.ok THEN [st |-> st, ok |-> FALSE]
       ELSE IF r.owner = 0
       THEN [st |-> [srv |-> r.srv, chg |-> FALSE, syn |-> NoSynth], ok |-> TRUE]
       ELSE [st |-> [st EXCEPT !.srv = r.srv], ok |-> TRUE]

CloseClipboard_fn(st, env) ==
    LET s1 == IF st.chg THEN synthesis_pass(st, env) ELSE st
        r == srv_close_clipboard(s1.srv, Self)
    IN IF ~r.ok THEN [st |-> s1, ok |-> FALSE, pass |-> st.chg]
       ELSE [st |-> [s1 EXCEPT !.srv = r.srv, !.chg = FALSE], ok |-> TRUE, pass |-> st.chg]

\* an EmptyClipboard that clears bCBHasChanged instead of setting it
EmptyClipboard_clearing_flag(st) ==
    LET r == srv_empty_clipboard(st.srv, Self)
    IN IF r.ok THEN [st |-> [srv |-> r.srv, chg |-> FALSE, syn |-> NoSynth], ok |-> TRUE]
       ELSE [st |-> st, ok |-> FALSE]

\* an EmptyClipboard that clears the table whatever the arbiter answered
EmptyClipboard_clearing_table(st) ==
    LET r == srv_empty_clipboard(st.srv, Self)
    IN IF r.ok THEN [st |-> [srv |-> r.srv, chg |-> TRUE, syn |-> NoSynth], ok |-> TRUE]
       ELSE [st |-> [st EXCEPT !.syn = NoSynth], ok |-> FALSE]

\* EmptyClipboard from the empty_clipboard request on
EmptyClipboard_fn(st) ==
    LET r == srv_empty_clipboard(st.srv, Self)
    IN IF r.ok THEN [st |-> [srv |-> r.srv, chg |-> TRUE, syn |-> NoSynth], ok |-> TRUE]
       ELSE [st |-> st, ok |-> FALSE]

(* ------------------------------------------------------------------ *)
(* State.                                                             *)
(* ------------------------------------------------------------------ *)
VARIABLES
    srv,                  \* the arbiter: open_by, owner, dir, seqno
    bCBHasChanged,        \* "Indicates if data has changed since open"
    synthesized_formats,  \* format -> source format, 0 when not synthesized
    pc,                   \* where the calling thread is inside EmptyClipboard
    last,                 \* the API call that returned last, and whether it succeeded
    sysLocale,            \* GetUserDefaultLCID()
    hist,                 \* per format: successful conversions and the first rendering
    used,                 \* the formats the applications of this run work with
    cx                    \* the codec specification's input and output

vars == <<srv, bCBHasChanged, synthesized_formats, pc, last, sysLocale, hist, used, cx>>

Locales == {1, 2}

client == [srv |-> srv, chg |-> bCBHasChanged, syn |-> synthesized_formats]

Env(conv, render) == [conv |-> conv, render |-> render, lcid |-> sysLocale, junk |-> 0]

Envs == {Env(c, r) : c \in BOOLEAN, r \in BOOLEAN}

\* aux: for "close", whether the synthesis pass ran; for "empty", whether
\* the wait for the owner timed out; for "get", whether WM_RENDERFORMAT was sent
NoCall == [op |-> "none", ok |-> FALSE, aux |-> FALSE]
Call(op, ok, aux) == [op |-> op, ok |-> ok, aux |-> aux]

\* first[f]: what the first successful rendering of f returned, until f is
\* written again; n[f]: successful conversions of f since the last empty;
\* again: formats read again after their rendering; ro: the application
\* has only read (no write, no empty) since this process opened its session
NoHist == [first |-> [f \in SynthFormats |-> NULL], n |-> [f \in SynthFormats |-> 0],
           again |-> {}, ro |-> FALSE]

CodecIdle == [op |-> "none"]

\* the arbiter sequence number at which the model stops writing; a run with
\* the text family gets one more write, the one the pass spends on CF_LOCALE
SeqLimit == IF CF_LOCALE \in used THEN MaxSeq + 1 ELSE MaxSeq

\* the client part of the next state
Install(st) ==
    /\ srv' = st.srv
    /\ bCBHasChanged' = st.chg
    /\ synthesized_formats' = st.syn

\* a run works with the formats of one family (and CF_LOCALE)
SessionInit ==
    /\ srv = [open_by |-> 0, owner |-> 0, dir |-> EmptyDir, seqno |-> 0]
    /\ bCBHasChanged = FALSE
    /\ synthesized_formats = NoSynth
    /\ pc = "idle"
    /\ last = NoCall
    /\ sysLocale = 1
    /\ hist = NoHist
    /\ used \in {TextFamily \cup {CF_LOCALE}, BitmapFamily, MetafileFamily}

Init == SessionInit /\ cx = CodecIdle

(* ------------------------------------------------------------------ *)
(* Actions of this process.                                           *)
(* ------------------------------------------------------------------ *)
OpenClipboard ==
    /\ pc = "idle"
    /\ LET r == OpenClipboard_fn(client)
       IN /\ Install(r.st)
          /\ last' = Call("open", r.ok, FALSE)
          /\ hist' = IF r.ok THEN [hist EXCEPT !.ro = TRUE] ELSE hist
    /\ UNCHANGED <<pc, sysLocale, used, cx>>

CloseClipboard ==
    /\ pc = "idle"
    /\ LET r == CloseClipboard_fn(client, Env(TRUE, FALSE))
       IN /\ r.st.srv.seqno <= SeqLimit
          /\ Install(r.st)
          /\ last' = Call("close", r.ok, bCBHasChanged)
    /\ UNCHANGED <<pc, sysLocale, hist, used, cx>>

\* EmptyClipboard up to SendMessageTimeoutW( owner, WM_DESTROYCLIPBOARD, ... )
EmptyBegin ==
    /\ pc = "idle"
    /\ srv.seqno < SeqLimit
    /\ pc' = IF srv.owner # 0 THEN "empty_wait" ELSE "empty_req"
    /\ UNCHANGED <<srv, bCBHasChanged, synthesized_formats, last, sysLocale, hist, used, cx>>

\* the owner answers WM_DESTROYCLIPBOARD
EmptyOwnerAck ==
    /\ pc = "empty_wait"
    /\ pc' = "empty_req"
    /\ UNCHANGED <<srv, bCBHasChanged, synthesized_formats, last, sysLocale, hist, used, cx>>

\* a wait for the owner that has no timeout (SendMessageW)
EmptyWaitForever == FALSE /\ UNCHANGED vars

\* the 5000 ms of SendMessageTimeoutW elapse without an answer
EmptyTimeout ==
    /\ pc = "empty_wait"
    /\ pc' = "empty_req_late"
    /\ UNCHANGED <<srv, bCBHasChanged, synthesized_formats, last, sysLocale, hist, used, cx>>

\* EmptyClipboard from the empty_clipboard request to its return
EmptyRequest ==
    /\ pc \in {"empty_req", "empty_req_late"}
    /\ LET r == EmptyClipboard_fn(client)
       IN /\ Install(r.st)
          /\ last' = Call("empty", r.ok, pc = "empty_req_late")
          /\ hist' = IF r.ok THEN NoHist ELSE hist
    /\ pc' = "idle"
    /\ UNCHANGED <<sysLocale, used, cx>>

\* the handles an application passes to SetClipboardData: data of the
\* format, 0 for delayed rendering, or something that is no such object
SetHandles(format) == {AppHandle(format, Self, sysLocale), NULL, [k |-> "invalid"]}

SetClipboardData_call(format, data) ==
    /\ pc = "idle"
    /\ srv.seqno < SeqLimit
    /\ LET r == SetClipboardData(client, format, data)
       IN /\ Install(r.st)
          /\ last' = Call("set", r.ok, FALSE)
          /\ hist' = IF r.ok
                     THEN [hist EXCEPT !.first = IF format \in SynthFormats
                                                 THEN [@ EXCEPT ![format] = NULL] ELSE @,
                                       !.again = @ \ {format},
                                       !.ro = FALSE]
                     ELSE hist
    /\ UNCHANGED <<pc, sysLocale, used, cx>>

\* the history after GetClipboardData( format ) returned r
hist_after_get(format, env, r) ==
    LET ro == hist.ro /\ ~(r.cnt.renders > 0 /\ env.render /\ srv.owner = Self)
    IN IF format \in SynthFormats /\ synthesized_formats[format] # 0 /\ r.ret # NULL
       THEN [first |-> [hist.first EXCEPT ![format] = IF hist.n[format] = 0 THEN r.ret ELSE @],
             n |-> [hist.n EXCEPT ![format] = IF @ < 2 THEN @ + 1 ELSE @],
             again |-> hist.again, ro |-> ro]
       ELSE IF format \in SynthFormats /\ hist.first[format] # NULL /\ r.ret # NULL
       THEN [hist EXCEPT !.again = @ \cup {format}, !.ro = ro]
       ELSE [hist EXCEPT !.ro = ro]

GetClipboardData_call(format, env) ==
    /\ pc = "idle"
    /\ LET r == GetClipboardData(client, format, NoCount, env)
       IN /\ r.st.srv.seqno <= SeqLimit
          /\ Install(r.st)
          /\ last' = Call("get", r.ret # NULL, r.cnt.renders > 0)
          /\ hist' = hist_after_get(format, env, r)
    /\ UNCHANGED <<pc, sysLocale, used, cx>>

(* ------------------------------------------------------------------ *)
(* The environment: another process, and the system locale.           *)
(* ------------------------------------------------------------------ *)
OtherOpen ==
    /\ srv_open_clipboard(srv, Other).ok
    /\ srv' = srv_open_clipboard(srv, Other).srv
    /\ UNCHANGED <<bCBHasChanged, synthesized_formats, pc, last, sysLocale, hist, used, cx>>

OtherClose ==
    /\ srv_close_clipboard(srv, Other).ok
    /\ srv' = srv_close_clipboard(srv, Other).srv
    /\ UNCHANGED <<bCBHasChanged, synthesized_formats, pc, last, sysLocale, hist, used, cx>>

OtherEmpty ==
    /\ srv.seqno < SeqLimit
    /\ srv_empty_clipboard(srv, Other).ok
    /\ srv' = srv_empty_clipboard(srv, Other).srv
    /\ hist' = NoHist
    /\ UNCHANGED <<bCBHasChanged, synthesized_formats, pc, last, sysLocale, used, cx>>

OtherSet(format) ==
    /\ srv.seqno < SeqLimit
    /\ srv.open_by = Other
    /\ srv' = srv_put(srv, format, marshal_data(format, AppHandle(format, Other, sysLocale)).bytes)
    /\ hist' = [hist EXCEPT !.first[format] = NULL, !.again = @ \ {format}]
    /\ UNCHANGED <<bCBHasChanged, synthesized_formats, pc, last, sysLocale, used, cx>>

\* the system locale changes; it matters to runs that work with text only
LocaleChange ==
    /\ CF_LOCALE \in used
    /\ sysLocale' \in Locales \ {sysLocale}
    /\ UNCHANGED <<srv, bCBHasChanged, synthesized_formats, pc, last, hist, used, cx>>

Next ==
    \/ OpenClipboard
    \/ CloseClipboard
    \/ EmptyBegin
    \/ EmptyOwnerAck
    \/ EmptyTimeout
    \/ EmptyRequest
    \/ \E f \in used : \E h \in SetHandles(f) : SetClipboardData_call(f, h)
    \/ \E f \in used : \E env \in Envs : GetClipboardData_call(f, env)
    \/ OtherOpen
    \/ OtherClose
    \/ OtherEmpty
    \/ \E f \in used \cap OtherFormats : OtherSet(f)
    \/ LocaleChange

Spec == Init /\ [][Next]_vars

\* SendMessageTimeoutW returns after at most 5000 ms, and the thread then
\* goes on to the empty_clipboard request
FairSpec == Spec /\ WF_vars(EmptyTimeout) /\ WF_vars(EmptyRequest)

(* ------------------------------------------------------------------ *)
(* Codec specification: marshal_data, unmarshal_data and the return   *)
(* path of GetClipboardData applied to drawn objects and payloads.    *)
(* ------------------------------------------------------------------ *)
BitDepths == {1, 32}

\* bitmap objects: device-dependent ones, and DIB sections (bmBits set)
BitmapObjects ==
    {Bitmap(w, h, Stride(w * bpp), bpp, bits, 1) :
        w \in 1..MaxDim, h \in (-MaxDim..MaxDim) \ {0}, bpp \in BitDepths, bits \in {0, 1}}

\* CF_BITMAP payloads as another process may store them: any header,
\* any length around the length the header asks for
BitmapPayloads ==
    {Bytes(SIZEOF_BITMAP + b.bmWidthBytes * Abs(b.bmHeight) + d, b) :
        b \in BitmapObjects, d \in -MaxSlack..0}
    \cup {Bytes(SIZEOF_BITMAP - 1, b) : b \in BitmapObjects}

PalettePayloads ==
    {Bytes(palette_size(n) + d, [k |-> "palette", palNumEntries |-> n, id |-> 1]) :
        n \in 1..MaxDim, d \in -MaxSlack..0}

MetafilePayloads ==
    {Bytes(SIZEOF_METAFILEPICT + d, Mem(SIZEOF_METAFILEPICT, CF_METAFILEPICT, 1, <<d>>)) :
        d \in 0..MaxSlack}

\* text payloads around the size of the first buffer of GetClipboardData
TextPayloads ==
    {Bytes(INITIAL_SIZE + d, Mem(INITIAL_SIZE + d, CP_UNICODE, 1, <<>>)) :
        d \in -MaxSlack..MaxSlack}

CodecInputs ==
    {[op |-> "payload", format |-> CF_BITMAP, bytes |-> b] : b \in BitmapPayloads}
    \cup {[op |-> "payload", format |-> CF_DSPBITMAP, bytes |-> b] : b \in BitmapPayloads}
    \cup {[op |-> "payload", format |-> CF_PALETTE, bytes |-> b] : b \in PalettePayloads}
    \cup {[op |-> "payload", format |-> CF_METAFILEPICT, bytes |-> b] : b \in MetafilePayloads}
    \cup {[op |-> "object", format |-> CF_BITMAP, handle |-> h] : h \in BitmapObjects}
    \cup {[op |-> "payload", format |-> CF_UNICODETEXT, bytes |-> b] : b \in TextPayloads}

\* a client with an open session on a directory that holds one payload
ClientHolding(format, bytes) ==
    [srv |-> [open_by |-> Self, owner |-> 0,
              dir |-> [EmptyDir EXCEPT ![format] = Entry(bytes)], seqno |-> 1],
     chg |-> FALSE, syn |-> NoSynth]

CodecInit ==
    /\ srv = [open_by |-> 0, owner |-> 0, dir |-> EmptyDir, seqno |-> 0]
    /\ bCBHasChanged = FALSE
    /\ synthesized_formats = NoSynth
    /\ pc = "idle"
    /\ last = NoCall
    /\ sysLocale = 1
    /\ hist = NoHist
    /\ used = BitmapFamily
    /\ cx \in CodecInputs

\* SetClipboardData's marshal_data on a drawn object
CodecMarshal ==
    /\ cx.op = "object"
    /\ LET m == marshal_data(cx.format, cx.handle)
       IN cx' = [op |-> "payload", format |-> cx.format, bytes |-> m.bytes,
                 handle |-> cx.handle]
    /\ UNCHANGED <<srv, bCBHasChanged, synthesized_formats, pc, last, sysLocale, hist, used>>

\* GetClipboardData on a directory that holds the payload
CodecGet ==
    /\ cx.op = "payload"
    /\ \E junk \in {0, 1} :
         LET g == GetClipboardData(ClientHolding(cx.format, cx.bytes), cx.format, NoCount,
                                   [conv |-> TRUE, render |-> FALSE, lcid |-> 1, junk |-> junk])
         IN cx' = [op |-> "got", format |-> cx.format, bytes |-> cx.bytes,
                   ret |-> g.ret, rejected |-> g.rejected, rebuilt |-> g.rebuilt,
                   cnt |-> g.cnt,
                   from |-> IF "handle" \in DOMAIN cx THEN cx.handle ELSE NULL]
    /\ UNCHANGED <<srv, bCBHasChanged, synthesized_formats, pc, last, sysLocale, hist, used>>

CodecNext == CodecMarshal \/ CodecGet

SpecCodec == CodecInit /\ [][CodecNext]_vars

(* ------------------------------------------------------------------ *)
(* Thread specification: two threads of this process.  Thread A holds *)
(* the session and calls CloseClipboard, which is split where the     *)
(* source has no lock: after the close_clipboard request has returned *)
(* and before `bCBHasChanged = FALSE`.  Thread B opens the clipboard, *)
(* writes and closes.  cx = [op, a, b, wrote, pass]: where each       *)
(* thread is, whether B's SetClipboardData succeeded, and whether B's *)
(* CloseClipboard ran the synthesis pass.                             *)
(* ------------------------------------------------------------------ *)
\* the session of thread A: opened, possibly emptied, possibly written
SessionOfA(emptied, format) ==
    LET s0 == [srv |-> [open_by |-> 0, owner |-> 0, dir |-> EmptyDir, seqno |-> 0],
               chg |-> FALSE, syn |-> NoSynth]
        s1 == OpenClipboard_fn(s0).st
        s2 == IF emptied THEN EmptyClipboard_fn(s1).st ELSE s1
    IN IF format = 0 THEN s2 ELSE SetClipboardData(s2, format, AppHandle(format, Self, 1)).st

ThreadsInit ==
    /\ used \in {TextFamily \cup {CF_LOCALE}, BitmapFamily, MetafileFamily}
    /\ \E emptied \in BOOLEAN : \E format \in used \cup {0} :
          LET st == SessionOfA(emptied, format)
          IN srv = st.srv /\ bCBHasChanged = st.chg /\ synthesized_formats = st.syn
    /\ pc = "idle"
    /\ last = NoCall
    /\ sysLocale = 1
    /\ hist = NoHist
    /\ cx = [op |-> "threads", a |-> "in_session", b |-> "start",
             wrote |-> FALSE, pass |-> FALSE]

\* thread A: CloseClipboard up to the return of the close_clipboard request
A_CloseRequest ==
    /\ cx.a = "in_session"
    /\ LET s1 == IF bCBHasChanged THEN synthesis_pass(client, Env(TRUE, FALSE)) ELSE client
           r == srv_close_clipboard(s1.srv, Self)
       IN /\ Install([s1 EXCEPT !.srv = r.srv])
          /\ cx' = [cx EXCEPT !.a = IF r.ok THEN "close_commit" ELSE "done"]
    /\ UNCHANGED <<pc, last, sysLocale, hist, used>>

\* thread A: CloseClipboard's `bCBHasChanged = FALSE`
A_CloseCommit ==
    /\ cx.a = "close_commit"
    /\ bCBHasChanged' = FALSE
    /\ cx' = [cx EXCEPT !.a = "done"]
    /\ UNCHANGED <<srv, synthesized_formats, pc, last, sysLocale, hist, used>>

\* thread B: a successful OpenClipboard
B_Open ==
    /\ cx.b = "start"
    /\ LET r == OpenClipboard_fn(client)
       IN /\ r.ok
          /\ Install(r.st)
    /\ cx' = [cx EXCEPT !.b = "open"]
    /\ UNCHANGED <<pc, last, sysLocale, hist, used>>

\* thread B: SetClipboardData in its session
B_Set(format, data) ==
    /\ cx.b = "open"
    /\ ~cx.wrote
    /\ LET r == SetClipboardData(client, format, data)
       IN /\ Install(r.st)
          /\ cx' = [cx EXCEPT !.wrote = r.ok]
    /\ UNCHANGED <<pc, last, sysLocale, hist, used>>

\* thread B: CloseClipboard
B_Close ==
    /\ cx.b = "open"
    /\ LET r == CloseClipboard_fn(client, Env(TRUE, FALSE))
       IN /\ Install(r.st)
          /\ cx' = [cx EXCEPT !.b = "closed", !.pass = r.pass]
    /\ UNCHANGED <<pc, last, sysLocale, hist, used>>

ThreadsNext ==
    \/ A_CloseRequest
    \/ A_CloseCommit
    \/ B_Open
    \/ \E f \in used : \E h \in SetHandles(f) : B_Set(f, h)
    \/ B_Close

SpecThreads == ThreadsInit /\ [][ThreadsNext]_vars

(* ------------------------------------------------------------------ *)
(* CloseClipboard step by step.  The caller is this thread; the       *)
(* session is held by this thread, by another thread of the process   *)
(* (which shares bCBHasChanged and synthesized_formats), or by nobody.*)
(* cx.log records what the call does, in order.                       *)
(* ------------------------------------------------------------------ *)
\* another thread of this process, as the arbiter sees it
Sibling == 3

\* the window the arbiter returns as reply->viewer: none, or one
Viewers == {0, 1}

\* a session of the process: OpenClipboard, optionally EmptyClipboard, then
\* SetClipboardData for up to two formats (0: none)
SessionWith(emptied, f1, f2) ==
    LET s0 == [srv |-> [open_by |-> 0, owner |-> 0, dir |-> EmptyDir, seqno |-> 0],
               chg |-> FALSE, syn |-> NoSynth]
        s1 == OpenClipboard_fn(s0).st
        s2 == IF emptied THEN EmptyClipboard_fn(s1).st ELSE s1
        s3 == IF f1 = 0 THEN s2 ELSE SetClipboardData(s2, f1, AppHandle(f1, Self, 1)).st
    IN IF f2 = 0 THEN s3 ELSE SetClipboardData(s3, f2, AppHandle(f2, Self, 1)).st

\* the state CloseClipboard is called in, by who holds the session
HeldBy(holder, st) ==
    IF holder = Self THEN st
    ELSE IF holder = Sibling THEN [st EXCEPT !.srv.open_by = Sibling]
    ELSE CloseClipboard_fn(st, [conv |-> TRUE, render |-> FALSE, lcid |-> 1, junk |-> 0]).st

CloseInit ==
    /\ used \in {TextFamily \cup {CF_LOCALE}, BitmapFamily, MetafileFamily}
    /\ \E emptied \in BOOLEAN : \E f1, f2 \in used \cup {0} : \E holder \in {Self, Sibling, 0} :
          LET st == HeldBy(holder, SessionWith(emptied, f1, f2))
          IN /\ srv = st.srv /\ bCBHasChanged = st.chg /\ synthesized_formats = st.syn
             /\ \E v \in Viewers :
                   cx = [op |-> "close", at |-> "start", log |-> <<>>, viewer |-> v,
                         ret |-> FALSE, before |-> st]
    /\ pc = "idle"
    /\ last = NoCall
    /\ sysLocale = 1
    /\ hist = NoHist

\* n copies of an event
Repeat(e, n) == [i \in 1..n |-> e]

\* CloseClipboard: the block run when bCBHasChanged is set; one "register"
\* per add_synthesized_format call, one "put" per write the arbiter accepted
Close_Pass ==
    /\ cx.op = "close" /\ cx.at = "start"
    /\ LET s1 == IF bCBHasChanged THEN synthesis_pass(client, Env(TRUE, FALSE)) ELSE client
           regs == IF bCBHasChanged
                   THEN Cardinality({f \in DOMAIN s1.syn : s1.syn[f] # 0}) ELSE 0
       IN /\ Install(s1)
          /\ cx' = [cx EXCEPT !.at = "request",
                               !.log = @ \o Repeat("register", regs)
                                         \o Repeat("put", s1.srv.seqno - srv.seqno)]
    /\ UNCHANGED <<pc, last, sysLocale, hist, used>>

\* CloseClipboard: the close_clipboard request and `if (!ret) return FALSE`
Close_Request ==
    /\ cx.op = "close" /\ cx.at = "request"
    /\ LET r == srv_close_clipboard(srv, Self)
       IN /\ srv' = r.srv
          /\ cx' = [cx EXCEPT !.at = IF r.ok THEN "commit" ELSE "done",
                               !.log = Append(@, IF r.ok THEN "close_ok" ELSE "close_failed")]
    /\ UNCHANGED <<bCBHasChanged, synthesized_formats, pc, last, sysLocale, hist, used>>

\* CloseClipboard: `bCBHasChanged = FALSE`
Close_Commit ==
    /\ cx.op = "close" /\ cx.at = "commit"
    /\ bCBHasChanged' = FALSE
    /\ cx' = [cx EXCEPT !.at = "notify"]
    /\ UNCHANGED <<srv, synthesized_formats, pc, last, sysLocale, hist, used>>

\* a notification step that does not wait for the answer of the arbiter
Close_Notify_early ==
    /\ cx.op = "close" /\ cx.at \in {"request", "notify"}
    /\ cx' = [cx EXCEPT !.at = "done", !.ret = TRUE,
                         !.log = IF cx.viewer # 0 THEN Append(@, "notify") ELSE @]
    /\ UNCHANGED <<srv, bCBHasChanged, synthesized_formats, pc, last, sysLocale, hist, used>>

\* CloseClipboard: `if (viewer) SendNotifyMessageW( viewer, WM_DRAWCLIPBOARD, ... )`
\* and `return TRUE`
Close_Notify ==
    /\ cx.op = "close" /\ cx.at = "notify"
    /\ cx' = [cx EXCEPT !.at = "done", !.ret = TRUE,
                         !.log = IF cx.viewer # 0 THEN Append(@, "notify") ELSE @]
    /\ UNCHANGED <<srv, bCBHasChanged, synthesized_formats, pc, last, sysLocale, hist, used>>

CloseNext ==
    \/ Close_Pass
    \/ Close_Request
    \/ Close_Commit
    \/ Close_Notify

SpecClose == CloseInit /\ [][CloseNext]_vars

(* ------------------------------------------------------------------ *)
(* One process alone: it has opened and emptied the clipboard, and    *)
(* from then on opens, writes real data, reads and closes.  No        *)
(* conversion fails and the owner, which promised no delayed format,  *)
(* answers no render request.  cx.adv is the set of formats a pass    *)
(* has registered as synthesized and the application has not written  *)
(* since.                                                             *)
(* ------------------------------------------------------------------ *)
AloneEnv == [conv |-> TRUE, render |-> FALSE, lcid |-> 1, junk |-> 0]

AloneInit ==
    /\ used \in {TextFamily \cup {CF_LOCALE}, BitmapFamily, MetafileFamily}
    /\ LET st == SessionWith(TRUE, 0, 0)
       IN srv = st.srv /\ bCBHasChanged = st.chg /\ synthesized_formats = st.syn
    /\ cx = [op |-> "alone", adv |-> {}]
    /\ pc = "idle"
    /\ last = NoCall
    /\ sysLocale = 1
    /\ hist = NoHist

Alone_Open ==
    /\ cx.op = "alone"
    /\ LET r == OpenClipboard_fn(client)
       IN /\ r.ok
          /\ Install(r.st)
    /\ UNCHANGED <<pc, last, sysLocale, hist, used, cx>>

Alone_Set(format) ==
    /\ cx.op = "alone"
    /\ srv.seqno < SeqLimit
    /\ LET r == SetClipboardData(client, format, AppHandle(format, Self, 1))
       IN /\ r.ok
          /\ Install(r.st)
          /\ cx' = [cx EXCEPT !.adv = @ \ {format}]
    /\ UNCHANGED <<pc, last, sysLocale, hist, used>>

Alone_Get(format) ==
    /\ cx.op = "alone"
    /\ srv.open_by = Self
    /\ LET r == GetClipboardData(client, format, NoCount, AloneEnv)
       IN /\ r.st.srv.seqno <= SeqLimit
          /\ Install(r.st)
    /\ UNCHANGED <<pc, last, sysLocale, hist, used, cx>>

Alone_Close ==
    /\ cx.op = "alone"
    /\ LET r == CloseClipboard_fn(client, AloneEnv)
       IN /\ r.ok
          /\ r.st.srv.seqno <= SeqLimit
          /\ Install(r.st)
          /\ cx' = [cx EXCEPT !.adv = IF r.pass
                                       THEN @ \cup {f \in DOMAIN r.st.syn : r.st.syn[f] # 0}
                                       ELSE @]
    /\ UNCHANGED <<pc, last, sysLocale, hist, used>>

AloneNext ==
    \/ Alone_Open
    \/ \E f \in used : Alone_Set(f)
    \/ \E f \in used : Alone_Get(f)
    \/ Alone_Close

SpecAlone == AloneInit /\ [][AloneNext]_vars

(* ------------------------------------------------------------------ *)
(* Properties.                                                        *)
(* ------------------------------------------------------------------ *)
Families == {TextFamily, BitmapFamily, MetafileFamily}

\* the members of a family that hold bytes in a directory
StoredIn(dir, fam) == {f \in fam : dir[f].present /\ dir[f].bytes.size > 0}

\* the members of a family that are in a directory, with or without bytes
PresentIn(dir, fam) == {f \in fam : dir[f].present}

InSession == srv.open_by = Self /\ pc = "idle"

(* C1: render-once.  Once GetClipboardData( F ) has rendered a synthesized
   format F, the rendered bytes are stored in the arbiter and F has no
   table entry; as long as nothing else writes F, every further
   GetClipboardData( F ) of the session runs no conversion and returns the
   handle the first call returned; F is converted at most once between two
   empties. *)
C1_RenderOnce ==
    \A f \in SynthFormats :
        /\ hist.n[f] <= 1
        /\ hist.first[f] # NULL =>
             /\ synthesized_formats[f] = 0
             /\ srv.dir[f] = Entry(marshal_data(f, hist.first[f]).bytes)
             /\ InSession =>
                  \A env \in Envs :
                      LET g == GetClipboardData(client, f, NoCount, env)
                      IN g.ret = hist.first[f] /\ g.cnt.convs = 0 /\ g.st = client

\* a format was rendered once and then read again in an open session
C1_Witness ==
    \E f \in SynthFormats :
        /\ f \in hist.again
        /\ hist.n[f] = 1
        /\ hist.first[f] # NULL
        /\ last = Call("get", TRUE, FALSE)
        /\ InSession

\* CloseClipboard runs with the changed flag set and the family partly stored
ClosePartly(fam) ==
    /\ CloseClipboard
    /\ bCBHasChanged
    /\ StoredIn(srv.dir, fam) # {}
    /\ StoredIn(srv.dir, fam) # fam

(* C2 as stated: when CloseClipboard runs with the changed flag set and a
   non-empty, non-full subset of a family is stored, then after the close
   every member of the family is available and every member that is not
   stored has a synthesis-table entry. *)
C2_AsStated ==
    [][\A fam \in Families :
          ClosePartly(fam) =>
              \A f \in fam :
                  /\ srv'.dir[f].present
                  /\ f \notin StoredIn(srv.dir, fam) => synthesized_formats'[f] # 0]_vars

(* C2 amended: when CloseClipboard runs with the changed flag set and a
   non-empty, non-full subset of a family is stored, then after the close
   every member of the family is available, and every member that was not
   in the directory at all (neither stored nor a placeholder without data)
   has a synthesis-table entry whose source was in the directory. *)
C2_FamilyComplete ==
    [][\A fam \in Families :
          ClosePartly(fam) =>
              \A f \in fam :
                  /\ srv'.dir[f].present
                  /\ f \notin PresentIn(srv.dir, fam) =>
                        synthesized_formats'[f] \in PresentIn(srv.dir, fam)]_vars

\* a close whose pass ran has left a family with a stored member and a
\* synthesized one
C2_Witness ==
    /\ last = Call("close", TRUE, TRUE)
    /\ \E fam \in Families :
          /\ StoredIn(srv.dir, fam) # {}
          /\ \E f \in fam : synthesized_formats[f] # 0 /\ srv.dir[f] = Entry(NoData)

\* a successful OpenClipboard
OpenSucceeds == OpenClipboard /\ last'.ok

(* C3 as stated: a successful OpenClipboard resets the changed flag and the
   synthesis table if the directory was empty at the time of the open, and
   leaves the directory, the changed flag and the synthesis table unchanged
   if the directory held at least one format. *)
C3_AsStated ==
    [][OpenSucceeds =>
          IF srv.dir = EmptyDir
          THEN bCBHasChanged' = FALSE /\ synthesized_formats' = NoSynth
          ELSE UNCHANGED <<bCBHasChanged, synthesized_formats>> /\ srv'.dir = srv.dir]_vars

(* C3 amended: a successful OpenClipboard never changes the directory; it
   resets the changed flag and the synthesis table if the arbiter's reply
   names no clipboard owner, and leaves both unchanged if it names one,
   whether or not the directory is empty. *)
C3_ResetBoundary ==
    [][OpenSucceeds =>
          /\ srv'.dir = srv.dir
          /\ IF srv.owner = 0
             THEN bCBHasChanged' = FALSE /\ synthesized_formats' = NoSynth
             ELSE UNCHANGED <<bCBHasChanged, synthesized_formats>>]_vars

\* a session was opened on an empty directory that has an owner, and the
\* synthesis table of the earlier generation is still there
C3_Witness ==
    /\ last = Call("open", TRUE, FALSE)
    /\ srv.open_by = Self
    /\ srv.owner # 0
    /\ srv.dir = EmptyDir
    /\ synthesized_formats # NoSynth

(* C4: a CF_BITMAP payload whose size is smaller than the header size plus
   row stride times absolute height, or whose bits pointer is set, is never
   rebuilt into a bitmap object. *)
C4_MalformedBitmapRejected ==
    (cx.op = "got" /\ cx.format = CF_BITMAP
        /\ (\/ cx.bytes.size < SIZEOF_BITMAP
                  + cx.bytes.body.bmWidthBytes * Abs(cx.bytes.body.bmHeight)
            \/ cx.bytes.body.bmBits # 0))
    => ~cx.rebuilt

(* C5: when unmarshal_data rejects a payload, GetClipboardData returns 0. *)
C5_RejectedIsFailure ==
    (cx.op = "got" /\ cx.rejected) => cx.ret = NULL

\* EmptyClipboard returns successfully
EmptyReturns == EmptyRequest /\ last'.ok

(* C6: EmptyClipboard called in an open session whose owner never answers
   WM_DESTROYCLIPBOARD terminates: a thread waiting for the owner always
   gets back to the caller; and when EmptyClipboard returns in a session
   this process holds, the directory is empty, the synthesis table is
   empty and the caller is the owner, also after a wait that timed out. *)
C6_EmptyTerminates ==
    /\ (pc = "empty_wait") ~> (pc = "idle")
    /\ [][(EmptyRequest /\ srv.open_by = Self) =>
             /\ last' = Call("empty", TRUE, pc = "empty_req_late")
             /\ srv'.dir = EmptyDir
             /\ synthesized_formats' = NoSynth
             /\ srv'.owner = Self]_vars

\* EmptyClipboard has returned after the wait for another owner timed out
C6_Witness ==
    /\ last = Call("empty", TRUE, TRUE)
    /\ pc = "idle"
    /\ srv.owner = Self
    /\ srv.dir = EmptyDir

(* C7 as stated: after every successful EmptyClipboard the changed flag is
   false and the synthesis table has no entries. *)
C7_AsStated ==
    [][EmptyReturns =>
          (bCBHasChanged' = FALSE /\ synthesized_formats' = NoSynth)]_vars

(* C7 amended: after every successful EmptyClipboard the changed flag is
   true and the synthesis table has no entries. *)
C7_AfterEmpty ==
    [][EmptyReturns =>
          (bCBHasChanged' = TRUE /\ synthesized_formats' = NoSynth)]_vars

\* EmptyClipboard has just succeeded without a wait timing out
C7_Witness ==
    /\ last = Call("empty", TRUE, FALSE)
    /\ bCBHasChanged
    /\ synthesized_formats = NoSynth
    /\ srv.open_by = Self

(* C8: in a session in which the application has only read since the
   open, reads of synthesized formats included, the changed flag is false
   (so that the close runs no synthesis pass). *)
C8_ChangedFlagMeaning ==
    (InSession /\ hist.ro) => ~bCBHasChanged

(* C9: for every format with a synthesis-table entry, the source the entry
   names is in the arbiter directory. *)
C9_NoDanglingEdge ==
    \A f \in DOMAIN synthesized_formats :
        synthesized_formats[f] # 0 => srv.dir[synthesized_formats[f]].present

(* C10: a SetClipboardData whose marshal_data fails returns failure and
   leaves the arbiter (directory and sequence number), the changed flag
   and the synthesis table unchanged. *)
C10_FailedMarshal ==
    \A f \in Formats : \A h \in SetHandles(f) :
        (pc = "idle" /\ h # NULL /\ ~marshal_data(f, h).ok) =>
            LET r == SetClipboardData(client, f, h)
            IN /\ ~r.ok
               /\ r.ret = NULL
               /\ r.st.srv = srv
               /\ r.st.chg = bCBHasChanged
               /\ r.st.syn = synthesized_formats

\* SetClipboardData has failed inside a session this process holds
C10_Witness ==
    /\ last = Call("set", FALSE, FALSE)
    /\ srv.open_by = Self
    /\ pc = "idle"

(* C11: a GetClipboardData on a format whose stored size exceeds the
   initial buffer of 1024 bytes issues exactly two get requests, the first
   with the initial buffer, the second with the stored size, and succeeds;
   a format that fits the initial buffer takes one request. *)
C11_OversizedRetry ==
    (cx.op = "got" /\ cx.format = CF_UNICODETEXT) =>
        /\ cx.ret # NULL
        /\ cx.ret.size = cx.bytes.size
        /\ IF cx.bytes.size > INITIAL_SIZE
           THEN cx.cnt.gets = 2 /\ cx.cnt.sizes = <<INITIAL_SIZE, cx.bytes.size>>
           ELSE cx.cnt.gets = 1 /\ cx.cnt.sizes = <<INITIAL_SIZE>>

\* an oversized format has been read
C11_Witness ==
    /\ cx.op = "got"
    /\ cx.bytes.size > INITIAL_SIZE
    /\ cx.cnt.gets = 2
    /\ cx.ret # NULL

\* the elements of a sequence
Range(q) == {q[i] : i \in 1..Len(q)}

(* C12: within one GetClipboardData call, nested reads included,
   WM_RENDERFORMAT is sent at most once per format, and only for a format
   that is in the directory without bytes while an owner is known; a read
   of such a format that has no table entry asks exactly once, returns the
   data if the owner supplied it and 0, without asking again, if it did
   not. *)
C12_RenderRequestOnce ==
    pc = "idle" =>
      \A f \in used : \A env \in Envs :
        LET g == GetClipboardData(client, f, NoCount, env)
        IN /\ Cardinality(Range(g.cnt.asked)) = Len(g.cnt.asked)
           /\ g.cnt.renders = Len(g.cnt.asked)
           /\ \A x \in Range(g.cnt.asked) :
                 /\ srv.owner # 0
                 /\ srv.open_by = Self
                 /\ srv.dir[x] = Entry(NoData)
           /\ (srv.open_by = Self /\ synthesized_formats[f] = 0) =>
                 IF srv.dir[f] = Entry(NoData) /\ srv.owner # 0
                 THEN /\ g.cnt.asked = <<f>>
                      /\ (g.ret # NULL) <=> env.render
                 ELSE g.cnt.asked = <<>>

\* a GetClipboardData has asked the owner, got nothing and returned 0
C12_Witness ==
    /\ last = Call("get", FALSE, TRUE)
    /\ InSession
    /\ srv.owner # 0

\* the text formats a close-time pass of this clipboard generation advertised
\* and nobody has rendered or written since
AdvertisedText ==
    {f \in TextFamily : synthesized_formats[f] # 0 /\ srv.dir[f] = Entry(NoData)}

\* CF_LOCALE holds a locale identifier
LocaleStored ==
    /\ srv.dir[CF_LOCALE].present
    /\ srv.dir[CF_LOCALE].bytes.size >= 4

\* a rendering of the text format f from its source was made with the code
\* pages of the locale lcid
RenderedWith(h, f, lcid) ==
    LET from == synthesized_formats[f]
    IN IF f = CF_UNICODETEXT
       THEN h.hdr = <<get_format_codepage(lcid, from)>>
       ELSE /\ h.enc = get_format_codepage(lcid, f)
            /\ from # CF_UNICODETEXT => h.hdr = <<get_format_codepage(lcid, from)>>

\* the close-time pass leaves a CF_LOCALE entry of the directory as it is
PassKeepsLocale ==
    (CloseClipboard /\ srv.dir[CF_LOCALE].present) =>
        srv'.dir[CF_LOCALE] = srv.dir[CF_LOCALE]

(* C13 as stated: while a text format advertised by a close-time pass is
   pending, CF_LOCALE is stored in the arbiter with its bytes, and every
   rendering of such a format uses the code pages of the stored locale,
   whatever the system locale is at render time; the pass never overwrites
   a CF_LOCALE that is already there. *)
C13_AsStated ==
    /\ [](\A f \in AdvertisedText :
            /\ LocaleStored
            /\ InSession =>
                 \A env \in Envs :
                     LET g == GetClipboardData(client, f, NoCount, env)
                     IN g.ret # NULL =>
                           RenderedWith(g.ret, f, srv.dir[CF_LOCALE].bytes.body.id))
    /\ [][PassKeepsLocale]_vars

(* C13 amended: while a text format advertised by a close-time pass is
   pending, CF_LOCALE is in the directory; if it is stored with its bytes
   every rendering of such a format uses the code pages of the stored
   locale, whatever the system locale is at render time; if it is in the
   directory without bytes (written with a null handle for delayed
   rendering) the rendering uses the system locale of render time; the
   pass never changes a CF_LOCALE entry that is already in the
   directory. *)
C13_LocaleStability ==
    /\ [](\A f \in AdvertisedText :
            /\ srv.dir[CF_LOCALE].present
            /\ InSession =>
                 \A env \in Envs :
                     LET g == GetClipboardData(client, f, NoCount, env)
                         lcid == IF LocaleStored THEN srv.dir[CF_LOCALE].bytes.body.id
                                 ELSE env.lcid
                     IN g.ret # NULL => RenderedWith(g.ret, f, lcid))
    /\ [][PassKeepsLocale]_vars

\* a text format was rendered with the stored locale after the system
\* locale had changed
C13_Witness ==
    /\ LocaleStored
    /\ srv.dir[CF_LOCALE].bytes.body.id # sysLocale
    /\ \E f \in {CF_TEXT, CF_OEMTEXT} :
          /\ hist.first[f] # NULL
          /\ hist.first[f].enc = get_format_codepage(srv.dir[CF_LOCALE].bytes.body.id, f)
          /\ srv.dir[f] = Entry(marshal_data(f, hist.first[f]).bytes)

\* a step that puts a new source into an entry of the synthesis table
TableGains ==
    \E f \in DOMAIN synthesized_formats :
        synthesized_formats'[f] # 0 /\ synthesized_formats'[f] # synthesized_formats[f]

(* C14: the synthesis table gains entries only inside CloseClipboard:
   every step that puts a source into a table entry is a CloseClipboard
   that ran the synthesis pass; OpenClipboard, SetClipboardData,
   EmptyClipboard and GetClipboardData only clear entries or leave the
   table as it is. *)
C14_TableFilledAtClose ==
    [][TableGains => (CloseClipboard /\ bCBHasChanged)]_vars

\* a format has been written in the session and its family has no other
\* member in the directory and no table entry
C14_Witness ==
    /\ last = Call("set", TRUE, FALSE)
    /\ InSession
    /\ \E fam \in Families : \E f \in fam :
          /\ srv.dir[f].present /\ srv.dir[f].bytes.size > 0
          /\ \A g \in fam \ {f} : ~srv.dir[g].present /\ synthesized_formats[g] = 0

(* C15: under every interleaving of one thread finishing CloseClipboard
   with another thread of the process opening the clipboard and writing,
   the writer's own CloseClipboard sees the changed flag set and runs the
   synthesis pass. *)
C15_WriteNotLost ==
    (cx.op = "threads" /\ cx.b = "closed" /\ cx.wrote) => cx.pass

(* C16: bitmap round-trip.  For every device-dependent bitmap the codec
   specification draws (width and height up to MaxDim, height of either
   sign, 1 or 32 bits per pixel), the payload marshal_data produces has
   size header + |height| * stride, with stride = (width * bpp + 15) / 8
   rounded down to an even number; unmarshal_data accepts it and rebuilds
   a bitmap with the same header fields and the same pixel bytes. *)
C16_BitmapRoundTrip ==
    (cx.op = "got" /\ cx.format = CF_BITMAP /\ cx.from # NULL /\ cx.from.bmBits = 0) =>
        LET b == cx.from
            s == (b.bmWidth * b.bmBitsPixel + 15) \div 8
            stride == s - (s % 2)
        IN /\ cx.bytes.size = SIZEOF_BITMAP + Abs(b.bmHeight) * stride
           /\ bitmap_accepted(cx.bytes)
           /\ cx.rebuilt /\ ~cx.rejected
           /\ cx.ret.k = "bitmap"
           /\ cx.ret.bmWidth = b.bmWidth
           /\ cx.ret.bmHeight = b.bmHeight
           /\ cx.ret.bmWidthBytes = b.bmWidthBytes
           /\ cx.ret.bmBitsPixel = b.bmBitsPixel
           /\ cx.ret.pix = b.pix

\* a bottom-up and a top-down device-dependent bitmap went through
\* marshal_data and unmarshal_data
C16_Witness ==
    /\ cx.op = "got"
    /\ cx.format = CF_BITMAP
    /\ cx.from # NULL
    /\ cx.from.bmBits = 0
    /\ cx.from.bmHeight < 0
    /\ cx.from.bmWidth * cx.from.bmBitsPixel = 1
    /\ cx.rebuilt

\* CloseClipboard runs its synthesis pass
ClosePass == CloseClipboard /\ bCBHasChanged

\* the first format of a preference order that is in a directory
FirstIn(dir, order) ==
    IF dir[order[1]].present THEN order[1]
    ELSE IF dir[order[2]].present THEN order[2]
    ELSE order[3]

\* after the pass, the members of fam that were available have no table
\* entry, and the missing ones are placeholders synthesized from src
SynthesizedFrom(fam, src) ==
    \A f \in fam :
        IF srv.dir[f].present
        THEN synthesized_formats'[f] = 0
        ELSE /\ synthesized_formats'[f] = src
             /\ srv'.dir[f] = Entry(NoData)

(* C17: text-family source selection.  When the close-time pass runs with
   a non-empty subset of {CF_TEXT, CF_OEMTEXT, CF_UNICODETEXT} available,
   each missing member is synthesized from CF_UNICODETEXT if it is
   available, otherwise from CF_TEXT if it is available, otherwise from
   CF_OEMTEXT, and the members already available get no table entry; with
   none available no member gets an entry. *)
C17_TextSource ==
    [][ClosePass =>
          IF PresentIn(srv.dir, TextFamily) = {}
          THEN \A f \in TextFamily : synthesized_formats'[f] = 0
          ELSE SynthesizedFrom(TextFamily,
                               FirstIn(srv.dir, <<CF_UNICODETEXT, CF_TEXT, CF_OEMTEXT>>))]_vars

\* a pass has synthesized both other text formats from CF_OEMTEXT
C17_Witness ==
    /\ last = Call("close", TRUE, TRUE)
    /\ synthesized_formats[CF_TEXT] = CF_OEMTEXT
    /\ synthesized_formats[CF_UNICODETEXT] = CF_OEMTEXT
    /\ synthesized_formats[CF_OEMTEXT] = 0

(* C18: bitmap-family source selection.  When the close-time pass runs with
   a non-empty, non-full subset of {CF_BITMAP, CF_DIB, CF_DIBV5} available,
   each missing member is synthesized from CF_BITMAP if it is available,
   otherwise from CF_DIB if it is available, otherwise from CF_DIBV5; one
   source serves all the missing members. *)
C18_BitmapSource ==
    [][(/\ ClosePass
        /\ PresentIn(srv.dir, BitmapFamily) # {}
        /\ PresentIn(srv.dir, BitmapFamily) # BitmapFamily) =>
          /\ SynthesizedFrom(BitmapFamily, FirstIn(srv.dir, <<CF_BITMAP, CF_DIB, CF_DIBV5>>))
          /\ \E src \in PresentIn(srv.dir, BitmapFamily) :
                {synthesized_formats'[f] : f \in BitmapFamily \ PresentIn(srv.dir, BitmapFamily)}
                    = {src}]_vars

\* a pass has synthesized both other bitmap formats from CF_DIBV5
C18_Witness ==
    /\ last = Call("close", TRUE, TRUE)
    /\ synthesized_formats[CF_BITMAP] = CF_DIBV5
    /\ synthesized_formats[CF_DIB] = CF_DIBV5
    /\ synthesized_formats[CF_DIBV5] = 0

\* the client state the pass hands to its metafile step
BeforeMetafileStep ==
    add_synthesized_bitmap(
        add_synthesized_text([client EXCEPT !.syn = NoSynth], Env(TRUE, FALSE)))

(* C19: metafile family.  When the close-time pass runs with exactly one of
   CF_METAFILEPICT and CF_ENHMETAFILE available, the other becomes a
   placeholder registered as synthesized from it; with both or neither
   available, the metafile step writes nothing to the arbiter (the
   metafile entries of the directory and the sequence number are what the
   steps before it left) and no metafile format gets a table entry. *)
C19_MetafileFamily ==
    [][ClosePass =>
          LET av == PresentIn(srv.dir, MetafileFamily)
          IN IF \E f \in MetafileFamily : av = {f}
             THEN \A f \in MetafileFamily :
                     av = {f} =>
                        /\ synthesized_formats'[f] = 0
                        /\ srv'.dir[f] = srv.dir[f]
                        /\ \A g \in MetafileFamily \ {f} :
                              /\ synthesized_formats'[g] = f
                              /\ srv'.dir[g] = Entry(NoData)
             ELSE /\ \A f \in MetafileFamily :
                        /\ synthesized_formats'[f] = 0
                        /\ srv'.dir[f] = srv.dir[f]
                  /\ srv'.seqno = BeforeMetafileStep.srv.seqno]_vars

\* a pass that found only CF_ENHMETAFILE has registered CF_METAFILEPICT from it
C19_Witness ==
    /\ last = Call("close", TRUE, TRUE)
    /\ synthesized_formats[CF_METAFILEPICT] = CF_ENHMETAFILE
    /\ synthesized_formats[CF_ENHMETAFILE] = 0
    /\ srv.dir[CF_METAFILEPICT] = Entry(NoData)
    /\ srv.dir[CF_ENHMETAFILE].bytes.size > 0

\* CloseClipboard runs its pass with every member of fam stored, and
\* nothing of another family in the directory
CloseFull(fam) ==
    /\ ClosePass
    /\ StoredIn(srv.dir, fam) = fam
    /\ PresentIn(srv.dir, SynthFormats \ fam) = {}

(* C20 as stated: when all three text formats, or all three bitmap formats,
   are stored at close, the pass issues no arbiter write on behalf of that
   family: the directory and the sequence number are the same as if the
   pass had not run. *)
C20_AsStated ==
    [][\A fam \in {TextFamily, BitmapFamily} :
          CloseFull(fam) =>
              /\ srv'.dir = srv.dir
              /\ srv'.seqno = srv.seqno]_vars

(* C20 amended: when all three text formats, or all three bitmap formats,
   are stored at close, the pass writes none of the formats of that family
   and gives none of them a table entry.  For the bitmap family, and for
   the text family when CF_LOCALE is available, the directory and the
   sequence number are the same as if the pass had not run; for the text
   family when CF_LOCALE is not available, the pass makes exactly one
   write, which stores the current locale under CF_LOCALE. *)
C20_FullFamily ==
    [][\A fam \in {TextFamily, BitmapFamily} :
          CloseFull(fam) =>
              /\ \A f \in SynthFormats :
                    /\ srv'.dir[f] = srv.dir[f]
                    /\ synthesized_formats'[f] = 0
              /\ IF fam = TextFamily /\ ~srv.dir[CF_LOCALE].present
                 THEN /\ srv'.dir = [srv.dir EXCEPT
                                        ![CF_LOCALE] = Entry(Bytes(4, Mem(4, 0, sysLocale, <<>>)))]
                      /\ srv'.seqno = srv.seqno + 1
                 ELSE /\ srv'.dir = srv.dir
                      /\ srv'.seqno = srv.seqno]_vars

\* a pass that found all three text formats stored and no CF_LOCALE has
\* stored the locale
C20_Witness ==
    /\ last = Call("close", TRUE, TRUE)
    /\ StoredIn(srv.dir, TextFamily) = TextFamily
    /\ \A f \in TextFamily : synthesized_formats[f] = 0
    /\ srv.dir[CF_LOCALE].present
    /\ srv.seqno = 4

\* the positions of an event in the log of a CloseClipboard call
At(e) == {i \in DOMAIN cx.log : cx.log[i] = e}

(* C21: close ordering.  In a CloseClipboard call, every synthesis
   registration and every arbiter write of the pass comes before the close
   request; WM_DRAWCLIPBOARD is sent only after the arbiter has accepted
   the close; when the arbiter rejects the close nothing is sent and the
   call returns failure; after a call that returned success the changed
   flag is false. *)
C21_CloseOrdering ==
    cx.op = "close" =>
        /\ \A i \in At("register") \cup At("put") :
              \A j \in At("close_ok") \cup At("close_failed") : i < j
        /\ \A j \in At("notify") : \E i \in At("close_ok") : i < j
        /\ (cx.at = "done" /\ At("close_failed") # {}) =>
              (At("notify") = {} /\ ~cx.ret)
        /\ (cx.at = "done" /\ cx.ret) => (~bCBHasChanged /\ At("close_ok") # {})

\* a close with the changed flag set has registered formats, closed the
\* session and notified the viewer
C21_Witness ==
    /\ cx.op = "close"
    /\ cx.at = "done"
    /\ cx.ret
    /\ cx.before.chg
    /\ At("register") # {}
    /\ At("notify") # {}

\* the calls GetClipboardData( f ) the application can make in this state
\* for a format with a synthesis-table entry, with their results
RenderCalls ==
    IF pc # "idle" THEN {}
    ELSE {[f |-> f, env |-> env, r |-> GetClipboardData(client, f, NoCount, env)] :
             f \in {g \in SynthFormats : synthesized_formats[g] # 0}, env \in Envs}

(* C22 as stated: when rendering a synthesized format fails,
   GetClipboardData returns no data, no entry is written to the arbiter
   for that format, and the format's table entry and the changed flag are
   unchanged; when rendering succeeds the rendered bytes are in the
   arbiter when the call returns them. *)
C22_AsStated ==
    \A c \in RenderCalls :
        IF c.r.ret = NULL
        THEN /\ c.r.st.srv.dir[c.f] = srv.dir[c.f]
             /\ c.r.st.syn[c.f] = synthesized_formats[c.f]
             /\ c.r.st.chg = bCBHasChanged
        ELSE c.r.st.srv.dir[c.f] = Entry(marshal_data(c.f, c.r.ret).bytes)

(* C22 amended: when rendering a synthesized format fails,
   GetClipboardData returns no data, no entry is written to the arbiter
   for that format and the format's table entry is unchanged.  If the call
   sent no render request, nothing at all has changed.  The changed flag
   changes only when the call sent a render request for the source (or for
   CF_LOCALE) to an owner in this process and the owner answered with
   SetClipboardData, which sets the flag.  When rendering succeeds the
   rendered bytes are in the arbiter when the call returns them. *)
C22_RenderFailure ==
    \A c \in RenderCalls :
        IF c.r.ret = NULL
        THEN /\ c.r.st.srv.dir[c.f] = srv.dir[c.f]
             /\ c.r.st.syn[c.f] = synthesized_formats[c.f]
             /\ c.r.cnt.renders = 0 => c.r.st = client
             /\ c.r.st.chg # bCBHasChanged =>
                   /\ c.r.st.chg
                   /\ c.r.cnt.renders > 0
                   /\ c.env.render
                   /\ srv.owner = Self
        ELSE c.r.st.srv.dir[c.f] = Entry(marshal_data(c.f, c.r.ret).bytes)

\* a read of a synthesized format has failed after its source was read:
\* the format is still a placeholder with its table entry
C22_Witness ==
    /\ last.op = "get"
    /\ ~last.ok
    /\ InSession
    /\ \E f \in SynthFormats :
          /\ synthesized_formats[f] # 0
          /\ srv.dir[f] = Entry(NoData)
          /\ srv.dir[synthesized_formats[f]].bytes.size > 0
          /\ hist.n[f] = 0

\* SetClipboardData or the request of EmptyClipboard runs while the caller
\* does not hold the session, so that the arbiter rejects it
RejectedWrite ==
    /\ srv.open_by # Self
    /\ \/ EmptyRequest
       \/ \E f \in Formats : \E h \in SetHandles(f) : SetClipboardData_call(f, h)

(* C23: session-state errors are surfaced and change nothing.  When the
   arbiter rejects SetClipboardData or EmptyClipboard because the caller
   has no open session, the call returns failure, and the changed flag,
   the synthesis table and the arbiter state are exactly as before the
   call; the steps of EmptyClipboard before its request change none of
   them either. *)
C23_RejectedWrite ==
    [][/\ RejectedWrite =>
             /\ last'.op \in {"set", "empty"}
             /\ ~last'.ok
             /\ bCBHasChanged' = bCBHasChanged
             /\ synthesized_formats' = synthesized_formats
             /\ srv' = srv
       /\ (EmptyBegin \/ EmptyOwnerAck \/ EmptyTimeout) =>
             /\ bCBHasChanged' = bCBHasChanged
             /\ synthesized_formats' = synthesized_formats]_vars

\* EmptyClipboard has failed outside a session and the table filled by the
\* last close is still there
C23_Witness ==
    /\ last = Call("empty", FALSE, FALSE)
    /\ srv.open_by # Self
    /\ \E f \in SynthFormats : synthesized_formats[f] # 0

\* the calls GetClipboardData( f ) the application can make in this state,
\* with the result of the call and of its own for (;;) loop
GetCalls ==
    IF pc # "idle" THEN {}
    ELSE {[f |-> f, env |-> env,
           r |-> GetClipboardData(client, f, NoCount, env),
           loop |-> get_loop(client, f, INITIAL_SIZE, TRUE, NoCount, env)] :
             f \in used, env \in Envs}

(* C24 as stated: every GetClipboardData call makes at most four arbiter
   get requests. *)
C24_AsStated ==
    \A c \in GetCalls : c.r.cnt.gets <= 4

(* C24 amended: every run of the loop of GetClipboardData ends after at
   most three get requests (so at most four): the first with 1024 bytes,
   then at most one after a render handoff and at most one after a
   buffer-too-small answer, and it sends at most one render request.  A
   call for a format with a synthesis-table entry runs the loop for the
   source and, for a text format, again for CF_LOCALE: it makes at most
   three get requests for a bitmap or metafile format and at most six for
   a text format, and more than four only when CF_LOCALE is a
   delayed-rendering placeholder. *)
C24_BoundedGets ==
    \A c \in GetCalls :
        /\ c.loop.cnt.gets <= 3
        /\ c.loop.cnt.renders <= 1
        /\ c.loop.cnt.sizes[1] = INITIAL_SIZE
        /\ c.r.cnt.gets = Len(c.r.cnt.sizes)
        /\ c.r.cnt.gets <= (IF synthesized_formats[c.f] = 0 THEN 3
                            ELSE IF c.f \in TextFamily THEN 6 ELSE 3)
        /\ c.r.cnt.gets > 4 =>
              /\ c.f \in TextFamily
              /\ synthesized_formats[c.f] # 0
              /\ srv.dir[CF_LOCALE] = Entry(NoData)

\* in an open session a call for a synthesized text format is about to
\* read a delayed source and a delayed CF_LOCALE with three requests each
C24_Witness ==
    /\ InSession
    /\ \E c \in GetCalls :
          /\ c.r.cnt.gets = 6
          /\ c.r.cnt.renders = 2
          /\ c.r.ret # NULL

\* GetClipboardData( f ) can produce f: it is stored, or it has a table
\* entry whose source is stored
Obtainable(f) ==
    \/ srv.dir[f].present /\ srv.dir[f].bytes.size > 0
    \/ /\ synthesized_formats[f] # 0
       /\ srv.dir[synthesized_formats[f]].present
       /\ srv.dir[synthesized_formats[f]].bytes.size > 0

(* C25: synthesized formats stay readable.  In a process alone, with
   conversions that never fail and no EmptyClipboard after the first one,
   every format that a close-time pass registered as synthesized is, after
   any sequence of open, read, write and close, either stored in the
   arbiter or still has a table entry whose source is stored; and in an
   open session GetClipboardData returns data for it. *)
C25_StaysReadable ==
    cx.op = "alone" =>
        \A f \in cx.adv :
            /\ Obtainable(f)
            /\ srv.open_by = Self =>
                  GetClipboardData(client, f, NoCount, AloneEnv).ret # NULL

(* C26: a failed CloseClipboard leaves the process-local session state
   untouched.  When the arbiter rejects the close, the synthesis table and
   the changed flag are the same as before the call, and every table entry
   belongs to a format that is registered in the arbiter directory. *)
C26_FailedCloseFrame ==
    (cx.op = "close" /\ cx.at = "done" /\ ~cx.ret) =>
        /\ synthesized_formats = cx.before.syn
        /\ bCBHasChanged = cx.before.chg
        /\ \A f \in DOMAIN synthesized_formats :
              synthesized_formats[f] # 0 => srv.dir[f].present

====
